---- MODULE Spec2Model ----
(***************************************************************************)
(* Subscription-state reconciliation of the basket newsletter service.     *)
(*                                                                         *)
(*   src/news/views.py        look_for_user, get_user_data (remote fetch)  *)
(*   src/apps/news/tasks.py   parse_newsletters, update_user, confirm_user *)
(*                                                                         *)
(* The remote platform (ExactTarget) is three partitions: the master       *)
(* subscribers table, the double-opt-in staging table and the Confirmation *)
(* table, which holds tokens only.  Records are functions from field names *)
(* to strings.  Python's None and '' are both falsy and are both written   *)
(* "" here.                                                                *)
(***************************************************************************)
EXTENDS Integers, Sequences, FiniteSets, TLC

VARIABLES
    subscribers,     \* local Subscriber table: email -> token
    etMaster,        \* remote master partition: email -> record
    etOptin,         \* remote double-opt-in partition: email -> record
    etConfirmation,  \* remote Confirmation partition: set of tokens
    ret,             \* the last get_user_data call: its arguments and outcome
    pc,              \* position of the update_user run
    runs,            \* update_user runs started so far
    data,            \* update_user: the request data
    type,            \* update_user: SUBSCRIBE, UNSUBSCRIBE or SET
    user_data,       \* update_user: outcome of the FETCH stage
    record,          \* update_user: the field map to write
    target_et,       \* update_user: the partition written to
    welcome,         \* update_user: the message to trigger, "" for none
    writes,          \* add_record calls of this run, in order
    sends,           \* trigger_send calls of this run, in order
    nextUuid,        \* tokens generated so far
    again,           \* this run repeats the request of the run before it,
                     \* whose write was applied
    queue,           \* the tasks queued by .delay(), in order
    resp,            \* the response to the last HTTP request
    req,             \* the last HTTP request and what serving it did
    served,          \* HTTP requests served so far
    workers          \* the worker processes, each on one update_user task

vars == <<subscribers, etMaster, etOptin, etConfirmation, ret, pc, runs, data,
          type, user_data, record, target_et, welcome, writes, sends, nextUuid,
          again, queue, resp, req, served, workers>>

remoteVars == <<etMaster, etOptin, etConfirmation>>
runVars == <<pc, runs, data, type, user_data, record, target_et, welcome,
             writes, sends, nextUuid, again>>
viewVars == <<queue, resp, req, served>>
taskVars == <<pc, runs, data, type, user_data, record, target_et, welcome,
              writes, sends, again>>

----------------------------------------------------------------------------
(* Bounds of the model *)

MaxRuns == 2

MaxRequests == 2

Emails == {"e1@x", "e2@x"}

\* tokens the remote platform holds for the subscribers it knows
RemoteToken == [e \in Emails |-> IF e = "e1@x" THEN "rt1" ELSE "rt2"]

\* str(uuid.uuid4()): the n-th token generated
UuidName == <<"u1", "u2", "u3", "u4">>

----------------------------------------------------------------------------
(* Program constants *)

SUBSCRIBE == 1
UNSUBSCRIBE == 2
SET == 3

EXACTTARGET_DATA == "Master_Subscribers"
EXACTTARGET_OPTIN_STAGE == "Double_Opt_In"
EXACTTARGET_CONFIRMATION == "Confirmation"

BASKET_NETWORK_FAILURE == "BASKET_NETWORK_FAILURE"
BASKET_EMAIL_PROVIDER_AUTH_FAILURE == "BASKET_EMAIL_PROVIDER_AUTH_FAILURE"

\* what a call to the remote platform can do
Outcomes == {"ok", "NewsletterException", "UnauthorizedException"}

Databases == {EXACTTARGET_DATA, EXACTTARGET_OPTIN_STAGE, EXACTTARGET_CONFIRMATION}

\* the outcomes of the calls of one fetch: the first failing call ends the
\* fetch, so at most one call is seen to fail
FaultPlans ==
    {f \in [Databases -> Outcomes] : Cardinality({d \in Databases : f[d] # "ok"}) <= 1}

----------------------------------------------------------------------------
(* Newsletter catalog *)

Catalog == <<[slug |-> "news-a", vendor_id |-> "A", welcome |-> " ",
               languages |-> <<"en", "de">>],
             [slug |-> "news-b", vendor_id |-> "B", welcome |-> "Welcome_B",
               languages |-> <<"en-US", "fr">>]>>

newsletter_slugs == [i \in 1..Len(Catalog) |-> Catalog[i].slug]

slug_to_vendor_id(slug) ==
    IF \E i \in 1..Len(Catalog) : Catalog[i].slug = slug
    THEN Catalog[CHOOSE i \in 1..Len(Catalog) : Catalog[i].slug = slug].vendor_id
    ELSE ""

----------------------------------------------------------------------------
(* Field maps *)

EmptyRecord == [x \in {} |-> ""]

Put(r, k, v) == [x \in (DOMAIN r) \cup {k} |-> IF x = k THEN v ELSE r[x]]

\* user.get(k, d)
Get(r, k, d) == IF k \in DOMAIN r THEN r[k] ELSE d

\* a column of a row the platform returns: empty when never written
Column(r, k) == Get(r, k, "")

Merge(old, new) ==
    [x \in (DOMAIN old) \cup (DOMAIN new) |->
        IF x \in DOMAIN new THEN new[x] ELSE old[x]]

----------------------------------------------------------------------------
(* The remote platform's get_record *)

Rows(database) ==
    IF database = EXACTTARGET_DATA THEN {etMaster[e] : e \in DOMAIN etMaster}
    ELSE IF database = EXACTTARGET_OPTIN_STAGE
         THEN {etOptin[e] : e \in DOMAIN etOptin}
    ELSE {[TOKEN |-> t] : t \in etConfirmation}

\* get_record(database, value, fields, key_field) under the call outcome `out`
get_record(database, value, key_field, out) ==
    LET hits == {r \in Rows(database) :
                    key_field \in DOMAIN r /\ r[key_field] = value}
    IN  IF out # "ok" THEN [kind |-> "raise", exc |-> out]
        ELSE IF hits = {} THEN [kind |-> "raise", exc |-> "NewsletterNoResultsException"]
        ELSE [kind |-> "row", user |-> CHOOSE r \in hits : TRUE]

----------------------------------------------------------------------------
(* Remote State Fetcher: look_for_user and get_user_data *)

None == [status |-> "None"]

\* the slugs of newsletter_slugs() whose flag is 'Y' in the row, in catalog order
SubscribedSlugs(user) ==
    LET flagged(slug) == Get(user, slug_to_vendor_id(slug) \o "_FLG", "N") = "Y"
    IN  SelectSeq(newsletter_slugs, flagged)

\* look_for_user(database, email, token, fields) when the platform call ends `out`
look_for_user(database, email, token, out) ==
    LET got == get_record(database,
                          IF email # "" THEN email ELSE token,
                          IF email # "" THEN "EMAIL_ADDRESS_" ELSE "TOKEN",
                          out)
    IN  IF got.kind = "raise"
        THEN IF got.exc = "NewsletterNoResultsException"
             THEN [kind |-> "None"]
             ELSE got
        ELSE IF database = EXACTTARGET_CONFIRMATION THEN [kind |-> "True"]
        ELSE [kind |-> "data",
              data |-> [status |-> "ok",
                        email |-> Column(got.user, "EMAIL_ADDRESS_"),
                        format |-> IF Column(got.user, "EMAIL_FORMAT_") # ""
                                   THEN Column(got.user, "EMAIL_FORMAT_") ELSE "H",
                        country |-> Column(got.user, "COUNTRY_"),
                        lang |-> Column(got.user, "LANGUAGE_ISO2"),
                        token |-> Column(got.user, "TOKEN"),
                        created_date |-> Column(got.user, "CREATED_DATE_"),
                        newsletters |-> SubscribedSlugs(got.user)]]

\* a faulty InitialFlags: the flags start out as "not found in master"
InitialFlags_unconfirmed == [confirmed |-> FALSE, pending |-> FALSE, master |-> FALSE]

\* the locals confirmed, pending, master as get_user_data first sets them
InitialFlags == [confirmed |-> TRUE, pending |-> FALSE, master |-> TRUE]

\* user_data['confirmed'], ['pending'], ['master'] = the three locals
WithFlags(ud, flags) ==
    [status |-> ud.status, email |-> ud.email, format |-> ud.format,
     country |-> ud.country, lang |-> ud.lang, token |-> ud.token,
     created_date |-> ud.created_date, newsletters |-> ud.newsletters,
     confirmed |-> flags.confirmed, pending |-> flags.pending,
     master |-> flags.master]

\* a faulty FetchFailure: the failure is swallowed and reads as "not found"
FetchFailure_swallowed(exc) == None

\* the except clauses of get_user_data; any other exception propagates
FetchFailure(exc) ==
    IF exc = "NewsletterException"
    THEN [status |-> "error", status_code |-> 400,
          code |-> BASKET_NETWORK_FAILURE]
    ELSE IF exc = "UnauthorizedException"
    THEN [status |-> "error", status_code |-> 500,
          code |-> BASKET_EMAIL_PROVIDER_AUTH_FAILURE]
    ELSE [status |-> "raise", exc |-> exc]

\* found in the optin database: look in the Confirmation database too
FoundInOptin(ud, token, email, f) ==
    LET q == <<EXACTTARGET_DATA, EXACTTARGET_OPTIN_STAGE, EXACTTARGET_CONFIRMATION>>
        c == look_for_user(EXACTTARGET_CONFIRMATION, email, token,
                           f[EXACTTARGET_CONFIRMATION])
    IN  IF c.kind = "raise"
        THEN [result |-> FetchFailure(c.exc), queried |-> q]
        ELSE [result |-> WithFlags(ud, [confirmed |-> (c.kind = "True"),
                                        pending |-> InitialFlags.pending,
                                        master |-> FALSE]),
              queried |-> q]

\* a faulty NotInMaster: the Confirmation database is consulted before the
\* "no such user" test
NotInMaster_confirmation_first(token, email, f) ==
    LET o == look_for_user(EXACTTARGET_OPTIN_STAGE, email, token,
                           f[EXACTTARGET_OPTIN_STAGE])
        c == look_for_user(EXACTTARGET_CONFIRMATION, email, token,
                           f[EXACTTARGET_CONFIRMATION])
        q == <<EXACTTARGET_DATA, EXACTTARGET_OPTIN_STAGE, EXACTTARGET_CONFIRMATION>>
    IN  IF o.kind = "raise"
        THEN [result |-> FetchFailure(o.exc),
              queried |-> <<EXACTTARGET_DATA, EXACTTARGET_OPTIN_STAGE>>]
        ELSE IF c.kind = "raise" THEN [result |-> FetchFailure(c.exc), queried |-> q]
        ELSE IF o.kind = "None" THEN [result |-> None, queried |-> q]
        ELSE FoundInOptin(o.data, token, email, f)

\* not in the master database: look in the optin database
NotInMaster(token, email, f) ==
    LET o == look_for_user(EXACTTARGET_OPTIN_STAGE, email, token,
                           f[EXACTTARGET_OPTIN_STAGE])
        q == <<EXACTTARGET_DATA, EXACTTARGET_OPTIN_STAGE>>
    IN  IF o.kind = "raise" THEN [result |-> FetchFailure(o.exc), queried |-> q]
        ELSE IF o.kind = "None" THEN [result |-> None, queried |-> q]
        ELSE FoundInOptin(o.data, token, email, f)

\* get_user_data(token, email) up to its exit from the try block, the outcome
\* of the call to each database being f[database]:
\* the value returned and the databases queried, in order
get_user_data(token, email, f) ==
    LET m == look_for_user(EXACTTARGET_DATA, email, token, f[EXACTTARGET_DATA])
    IN  IF m.kind = "raise"
        THEN [result |-> FetchFailure(m.exc), queried |-> <<EXACTTARGET_DATA>>]
        ELSE IF m.kind = "data"
        THEN [result |-> WithFlags(m.data, InitialFlags),
              queried |-> <<EXACTTARGET_DATA>>]
        ELSE NotInMaster(token, email, f)

\* Subscriber.objects.get_and_sync(email, token): "if user not in our db
\* create it, if token mismatch fix it"
get_and_sync(subs, email, token) ==
    [e \in (DOMAIN subs) \cup {email} |-> IF e = email THEN token ELSE subs[e]]

\* the tail of get_user_data: "We did find a user"
SyncOnRead(subs, result, sync_data) ==
    IF result.status = "ok" /\ sync_data
    THEN get_and_sync(subs, result.email, result.token)
    ELSE subs

\* the tokens a caller can present
KnownTokens ==
    {RemoteToken[e] : e \in Emails} \cup {subscribers[e] : e \in DOMAIN subscribers}

\* where the platform holds the subscriber a call asks for, when it is made:
\* a row in the master partition, a row in the pending partition, and the
\* token of that row in the Confirmation partition
Subject(token, email) ==
    LET mine(rows) == {r \in rows : IF email # "" THEN r["EMAIL_ADDRESS_"] = email
                                                   ELSE r["TOKEN"] = token}
    IN  [master |-> mine(Rows(EXACTTARGET_DATA)) # {},
         optin |-> mine(Rows(EXACTTARGET_OPTIN_STAGE)) # {},
         confirmation |-> \E r \in mine(Rows(EXACTTARGET_OPTIN_STAGE)) :
                              r["TOKEN"] \in etConfirmation]

\* the log entry of a call of get_user_data
CallOf(token, email, sync_data, f, got) ==
    [token |-> token, email |-> email, sync_data |-> sync_data,
     result |-> got.result, queried |-> got.queried,
     outs |-> [i \in 1..Len(got.queried) |-> f[got.queried[i]]],
     before |-> subscribers,
     subject |-> Subject(token, email)]

\* a call of get_user_data by email or by token (lookup_user, get_user,
\* lookup_subscriber, send_recovery_message)
GetUserData ==
    \E email \in Emails \cup {""}, token \in KnownTokens \cup {""},
       sync_data \in BOOLEAN, f \in FaultPlans :
        /\ pc = "idle"
        /\ (email = "") # (token = "")
        /\ LET got == get_user_data(token, email, f)
           IN  /\ ret' = CallOf(token, email, sync_data, f, got)
               /\ subscribers' = SyncOnRead(subscribers, got.result, sync_data)
        /\ UNCHANGED <<remoteVars, runVars, viewVars, workers>>

\* confirm_user(token) for the token of a local Subscriber: record the token
\* in the Confirmation database
ConfirmUser ==
    \E token \in {subscribers[e] : e \in DOMAIN subscribers}, out \in Outcomes :
        /\ pc = "idle"
        /\ etConfirmation' = IF out = "ok" THEN etConfirmation \cup {token}
                             ELSE etConfirmation
        /\ UNCHANGED <<subscribers, etMaster, etOptin, ret, runVars, viewVars, workers>>

----------------------------------------------------------------------------
(* Diff & field-set builder: update_user up to the write *)

\* Double opt-in languages
CONFIRM_SENDS ==
    [l \in {"es", "es-ES", "de", "fr", "pt", "pt-BR"} |->
        CASE l \in {"es", "es-ES"} -> "es_confirmation_email"
          [] l = "de" -> "de_confirmation_email"
          [] l = "fr" -> "fr_confirmation_email"
          [] OTHER -> "pt_br_confirmation_email"]

\* gmttime() and date.today().strftime('%Y-%m-%d')
gmttime == "now"
today == "today"

\* str.lower() and str.upper() on the format values a request carries
lower(x) == CASE x = "H" -> "h" [] x = "T" -> "t" [] x = "Text" -> "text"
              [] x = "en-US" -> "en-us" [] x = "en-GB" -> "en-gb" [] OTHER -> x
upper(x) == CASE x = "h" -> "H" [] x = "t" -> "T" [] x = "text" -> "TEXT"
              [] x = "html" -> "HTML" [] OTHER -> x

\* str.strip() on the pieces of a comma-separated list
strip(x) == CASE x = " news-a" -> "news-a" [] x = "news-b " -> "news-b" [] OTHER -> x

\* newsletter_field(nl): the vendor field of a newsletter, "" when unknown
newsletter_field(nl) == slug_to_vendor_id(nl)

newsletter_names == {Catalog[i].slug : i \in 1..Len(Catalog)}

\* for nl in nls: if newsletter_field(nl): record[.._FLG] = flag; record[.._DATE] = today
RECURSIVE SetFlags(_, _, _)
SetFlags(rec, nls, flag) ==
    IF nls = {} THEN rec
    ELSE LET nl == CHOOSE x \in nls : TRUE
             name == newsletter_field(nl)
             rest == SetFlags(rec, nls \ {nl}, flag)
         IN  IF name # ""
             THEN Put(Put(rest, name \o "_FLG", flag), name \o "_DATE", today)
             ELSE rest

\* a faulty parse_newsletters: SET unsubscribes the named newsletters instead
\* of the inversion of the list
parse_newsletters_no_inversion(rec, tp, newsletters) ==
    LET nls == {strip(newsletters[i]) : i \in 1..Len(newsletters)}
        subscribed == IF tp = SUBSCRIBE \/ tp = SET THEN SetFlags(rec, nls, "Y") ELSE rec
    IN  IF tp = UNSUBSCRIBE \/ tp = SET THEN SetFlags(subscribed, nls, "N")
        ELSE subscribed

\* a faulty parse_newsletters: UNSUBSCRIBE takes the inversion of the list as
\* SET does
parse_newsletters_inverted(rec, tp, newsletters) ==
    LET nls == {strip(newsletters[i]) : i \in 1..Len(newsletters)}
        subscribed == IF tp = SUBSCRIBE \/ tp = SET THEN SetFlags(rec, nls, "Y") ELSE rec
    IN  IF tp = UNSUBSCRIBE \/ tp = SET
        THEN SetFlags(subscribed, newsletter_names \ nls, "N")
        ELSE subscribed

\* a faulty parse_newsletters: the flags are set without their dates
parse_newsletters_undated(rec, tp, newsletters) ==
    LET nls == {strip(newsletters[i]) : i \in 1..Len(newsletters)}
        subscribed == IF tp = SUBSCRIBE \/ tp = SET THEN SetFlags(rec, nls, "Y") ELSE rec
        unsubs == IF tp = SET THEN newsletter_names \ nls ELSE nls
        full == IF tp = UNSUBSCRIBE \/ tp = SET THEN SetFlags(subscribed, unsubs, "N")
                ELSE subscribed
        dates == {Catalog[i].vendor_id \o "_DATE" : i \in 1..Len(Catalog)}
    IN  [x \in (DOMAIN full) \ dates |-> full[x]]

\* parse_newsletters(record, type, newsletters); `newsletters` is the
\* comma-separated string, given as the sequence of its pieces
parse_newsletters(rec, tp, newsletters) ==
    LET nls == {strip(newsletters[i]) : i \in 1..Len(newsletters)}
        subscribed == IF tp = SUBSCRIBE \/ tp = SET THEN SetFlags(rec, nls, "Y") ELSE rec
        unsubs == IF tp = SET THEN newsletter_names \ nls ELSE nls
    IN  IF tp = UNSUBSCRIBE \/ tp = SET THEN SetFlags(subscribed, unsubs, "N")
        ELSE subscribed

\* fmt = data.get('format', 'H').lower(); 'text' -> 'T', 'html' -> 'H'; fmt.upper()
EmailFormat(d) ==
    LET fmt == lower(Get(d, "format", "H"))
    IN  upper(IF fmt = "text" THEN "T" ELSE IF fmt = "html" THEN "H" ELSE fmt)

\* the record before the Subscriber is looked up: the fixed fields, the
\* optional ones the request carries, the format and the newsletter flags
ParsedRecord(d, tp) ==
    LET base == [x \in {"EMAIL_ADDRESS_", "EMAIL_PERMISSION_STATUS_"} |->
                    IF x = "EMAIL_ADDRESS_" THEN d["email"] ELSE "I"]
        r1 == IF "country" \in DOMAIN d THEN Put(base, "COUNTRY_", d["country"]) ELSE base
        r2 == IF "lang" \in DOMAIN d THEN Put(r1, "LANGUAGE_ISO2", d["lang"]) ELSE r1
        r3 == IF "source_url" \in DOMAIN d THEN Put(r2, "SOURCE_URL", d["source_url"]) ELSE r2
        r4 == Put(r3, "EMAIL_FORMAT_", EmailFormat(d))
    IN  parse_newsletters(r4, tp, Get(d, "newsletters", <<"">>))

\* the token and dates: a new Subscriber gets a fresh token and a creation date
StampedRecord(rec, created, token) ==
    LET r1 == IF created
              THEN Put(Put(rec, "TOKEN", token), "CREATED_DATE_", gmttime)
              ELSE Put(rec, "TOKEN", token)
    IN  Put(r1, "MODIFIED_DATE_", gmttime)

\* lang in CONFIRM_SENDS and type == SUBSCRIBE
NeedsOptin(rec, tp) ==
    Get(rec, "LANGUAGE_ISO2", "") \in DOMAIN CONFIRM_SENDS /\ tp = SUBSCRIBE

\* a faulty Targeted: the welcome asked for takes precedence over the
\* confirmation message
Targeted_welcome_first(rec, d, tp) ==
    IF NeedsOptin(rec, tp)
    THEN [target_et |-> EXACTTARGET_OPTIN_STAGE,
          welcome |-> IF Get(d, "trigger_welcome", "") = "Y" THEN "39"
                      ELSE CONFIRM_SENDS[rec["LANGUAGE_ISO2"]],
          record |-> Put(Put(rec, "SubscriberKey", rec["TOKEN"]),
                         "EmailAddress", rec["EMAIL_ADDRESS_"])]
    ELSE [target_et |-> EXACTTARGET_DATA,
          welcome |-> IF Get(d, "trigger_welcome", "") = "Y" THEN "39" ELSE "",
          record |-> rec]

\* the partition written to, the message to trigger and the final record
Targeted(rec, d, tp) ==
    IF NeedsOptin(rec, tp)
    THEN [target_et |-> EXACTTARGET_OPTIN_STAGE,
          welcome |-> CONFIRM_SENDS[rec["LANGUAGE_ISO2"]],
          record |-> Put(Put(rec, "SubscriberKey", rec["TOKEN"]),
                         "EmailAddress", rec["EMAIL_ADDRESS_"])]
    ELSE [target_et |-> EXACTTARGET_DATA,
          welcome |-> IF Get(d, "trigger_welcome", "") = "Y" THEN "39" ELSE "",
          record |-> rec]

----------------------------------------------------------------------------
(* The remote platform's add_record and its failures *)

\* the messages of the platform's errors, as sequences of words
Messages == {<<"Required", "field", "CREATED_DATE_", "missing">>, <<"timed", "out">>}

Rejections == {[exc |-> x, message |-> m] :
                 x \in {"NewsletterException", "UnauthorizedException"}, m \in Messages}

IsOk(out) == out = [exc |-> "", message |-> <<>>]

WriteOutcomes == {[exc |-> "", message |-> <<>>]} \cup Rejections

\* str.find(word): the index of the first occurrence, -1 when there is none
find(message, word) ==
    IF \E i \in 1..Len(message) : message[i] = word
    THEN (CHOOSE i \in 1..Len(message) :
            message[i] = word /\ \A j \in 1..(i - 1) : message[j] # word) - 1
    ELSE -1

\* a faulty add_record: the fields are written to every row of the partition
Upsert_every_row(rows, rec) ==
    LET key == rec["EMAIL_ADDRESS_"]
    IN  [e \in (DOMAIN rows) \cup {key} |->
            IF e = key
            THEN Merge(IF key \in DOMAIN rows THEN rows[key] ELSE EmptyRecord, rec)
            ELSE Merge(rows[e], [x \in (DOMAIN rec) \ {"EMAIL_ADDRESS_"} |-> rec[x]])]

\* a faulty add_record: the row is replaced by the submitted fields, the
\* fields that were not submitted are lost
Upsert_replace(rows, rec) ==
    LET key == rec["EMAIL_ADDRESS_"]
    IN  [e \in (DOMAIN rows) \cup {key} |-> IF e = key THEN rec ELSE rows[e]]

\* add_record(database, fields, values): the row of that email is created or
\* its fields overwritten
Upsert(rows, rec) ==
    LET key == rec["EMAIL_ADDRESS_"]
    IN  [e \in (DOMAIN rows) \cup {key} |->
            IF e = key
            THEN Merge(IF key \in DOMAIN rows THEN rows[key] ELSE EmptyRecord, rec)
            ELSE rows[e]]

Applied(database, rec) ==
    /\ etMaster' = IF database = EXACTTARGET_DATA THEN Upsert(etMaster, rec) ELSE etMaster
    /\ etOptin' = IF database = EXACTTARGET_OPTIN_STAGE THEN Upsert(etOptin, rec) ELSE etOptin
    /\ UNCHANGED etConfirmation

----------------------------------------------------------------------------
(* Update orchestrator: one run of update_user *)

\* the requests of the model: data dictionaries of update_user
Request(e, nls, opt) ==
    [x \in {"email", "newsletters"} \cup opt |->
        CASE x = "email" -> e
          [] x = "newsletters" -> nls
          [] x = "lang" -> "de"
          [] x = "format" -> "Text"
          [] x = "country" -> "US"
          [] x = "trigger_welcome" /\ "country" \in opt -> "Nope"
          [] OTHER -> "Y"]

Requests ==
    {Request(e, <<"news-a">>, opt) :
        e \in Emails, opt \in {{}, {"trigger_welcome"}}}
    \cup {Request(e, <<" news-a", "news-b ">>, opt) :
        e \in Emails, opt \in {{"lang"}, {"lang", "trigger_welcome", "format"}}}
    \cup {Request("e1@x", <<"">>, {}),
          Request("e1@x", <<"news-a">>, {"country", "trigger_welcome"}),
          Request("e1@x", <<" news-a", "news-b ">>, {"trigger_welcome", "format"}),
          Request("e1@x", <<"news-a", "nope">>, {})}

\* a write of the run was accepted by the platform
SomeWriteSucceeded == \E i \in 1..Len(writes) : IsOk(writes[i].out)

\* the task starts on a request
UpdateUserStart ==
    \E d \in Requests, tp \in {SUBSCRIBE, UNSUBSCRIBE, SET} :
        /\ pc \in {"idle", "done", "error"}
        /\ runs < MaxRuns
        /\ runs' = runs + 1
        /\ data' = d
        /\ type' = tp
        /\ pc' = "fetch"
        /\ user_data' = None
        /\ record' = EmptyRecord
        /\ target_et' = ""
        /\ welcome' = ""
        /\ writes' = <<>>
        /\ sends' = <<>>
        /\ again' = (runs > 0 /\ d = data /\ tp = type /\ SomeWriteSucceeded)
        /\ UNCHANGED <<subscribers, remoteVars, ret, nextUuid, viewVars, workers>>

\* FETCH: the subscriber's remote state; a transport or auth error aborts the
\* run before WRITE
Fetch ==
    \E f \in FaultPlans :
        /\ pc = "fetch"
        /\ LET got == get_user_data("", data["email"], f)
           IN  /\ ret' = CallOf("", data["email"], FALSE, f, got)
               /\ user_data' = got.result
               /\ pc' = IF got.result.status = "error" THEN "error" ELSE "build"
        /\ UNCHANGED <<subscribers, remoteVars, runs, data, type, record, target_et,
                       welcome, writes, sends, nextUuid, again, viewVars, workers>>

\* parse the parameters, get or create the Subscriber, choose the partition
\* and the message
Build ==
    /\ pc = "build"
    /\ LET email == data["email"]
           created == email \notin DOMAIN subscribers
           token == IF created THEN UuidName[nextUuid + 1] ELSE subscribers[email]
           t == Targeted(StampedRecord(ParsedRecord(data, type), created, token),
                         data, type)
       IN  /\ created => nextUuid < Len(UuidName)
           /\ subscribers' = IF created THEN get_and_sync(subscribers, email, token)
                             ELSE subscribers
           /\ nextUuid' = IF created THEN nextUuid + 1 ELSE nextUuid
           /\ record' = t.record
           /\ target_et' = t.target_et
           /\ welcome' = t.welcome
    /\ pc' = "write"
    /\ UNCHANGED <<remoteVars, ret, runs, data, type, user_data, writes, sends,
                   again, viewVars, workers>>

\* a faulty MissingCreatedDate: every rejection is taken for a missing
\* creation date
MissingCreatedDate_any(out) == TRUE

\* e.message.find('CREATED_DATE_') != -1
MissingCreatedDate(out) == find(out.message, "CREATED_DATE_") # -1

\* record['CREATED_DATE_'] = gmttime()
RecoveryRecord(rec) == Put(rec, "CREATED_DATE_", gmttime)

\* WRITE: the first add_record
AddRecord ==
    \E out \in WriteOutcomes :
        /\ pc = "write"
        /\ writes' = Append(writes, [database |-> target_et, record |-> record, out |-> out])
        /\ IF IsOk(out)
           THEN Applied(target_et, record) /\ pc' = "trigger" /\ UNCHANGED record
           ELSE IF MissingCreatedDate(out)
           THEN pc' = "recover" /\ record' = RecoveryRecord(record) /\ UNCHANGED remoteVars
           ELSE pc' = "error" /\ UNCHANGED <<record, remoteVars>>
        /\ UNCHANGED <<subscribers, ret, runs, data, type, user_data, target_et,
                       welcome, sends, nextUuid, again, viewVars, workers>>

\* a faulty AfterRecovery: a resubmission rejected for the creation date
\* is resubmitted again
AfterRecovery_retry(out) ==
    IF IsOk(out) THEN "trigger"
    ELSE IF find(out.message, "CREATED_DATE_") # -1 THEN "recover" ELSE "error"

\* a faulty AfterRecovery: the run ends after a recovered write
AfterRecovery_done(out) == IF IsOk(out) THEN "done" ELSE "error"

\* where the run goes after the resubmission
AfterRecovery(out) == IF IsOk(out) THEN "trigger" ELSE "error"

\* RECOVER: the add_record inside the except clause; its failure propagates
AddRecordAgain ==
    \E out \in WriteOutcomes :
        /\ pc = "recover"
        /\ writes' = Append(writes, [database |-> target_et, record |-> record, out |-> out])
        /\ IF IsOk(out) THEN Applied(target_et, record) ELSE UNCHANGED remoteVars
        /\ pc' = AfterRecovery(out)
        /\ UNCHANGED <<subscribers, ret, runs, data, type, user_data, record,
                       target_et, welcome, sends, nextUuid, again, viewVars, workers>>

\* handle_exception(task, e): raise e
handle_exception(out) == "error"

\* what a finished run hands back: the function ends without a return
\* statement, or the exception handle_exception raises leaves it
update_user_returns ==
    IF pc = "done" THEN "None" ELSE IF pc = "error" THEN "raise" ELSE "running"

\* TRIGGER: the welcome or confirmation message, when there is one
TriggerSend ==
    \E out \in Outcomes :
        /\ pc = "trigger"
        /\ IF welcome # ""
           THEN /\ sends' = Append(sends, [message |-> welcome,
                                           email |-> record["EMAIL_ADDRESS_"],
                                           token |-> record["TOKEN"],
                                           format |-> Get(record, "EMAIL_FORMAT_", "H"),
                                           out |-> out])
                /\ pc' = IF out = "ok" THEN "done" ELSE handle_exception(out)
           ELSE /\ out = "ok"
                /\ UNCHANGED sends
                /\ pc' = "done"
        /\ UNCHANGED <<subscribers, remoteVars, ret, runs, data, type, user_data,
                       record, target_et, welcome, writes, nextUuid, again,
                       viewVars, workers>>

----------------------------------------------------------------------------
(* Request surface: lookup_subscriber, logged_in, update_user_task and the *)
(* views subscribe, unsubscribe and confirm                                *)

BASKET_USAGE_ERROR == "BASKET_USAGE_ERROR"
BASKET_INVALID_NEWSLETTER == "BASKET_INVALID_NEWSLETTER"
BASKET_INVALID_LANGUAGE == "BASKET_INVALID_LANGUAGE"

\* no Subscriber object: None
NoSubscriber == [email |-> "", token |-> ""]

\* Subscriber.objects.get(**kwargs) with the keywords that are given;
\* NoSubscriber stands for Subscriber.DoesNotExist
SubscriberGet(subs, token, email) ==
    LET hits == {e \in DOMAIN subs :
                    (token # "" => subs[e] = token) /\ (email # "" => e = email)}
    IN  IF hits = {} THEN NoSubscriber
        ELSE LET e == CHOOSE x \in hits : TRUE IN [email |-> e, token |-> subs[e]]

\* Subscriber.objects.get_or_create(email=email): a new Subscriber gets the
\* next generated token
get_or_create(subs, uuid, email) ==
    IF email \in DOMAIN subs
    THEN [subscriber |-> [email |-> email, token |-> subs[email]], created |-> FALSE,
          subs |-> subs, uuid |-> uuid]
    ELSE [subscriber |-> [email |-> email, token |-> UuidName[uuid + 1]],
          created |-> TRUE,
          subs |-> [e \in (DOMAIN subs) \cup {email} |->
                       IF e = email THEN UuidName[uuid + 1] ELSE subs[e]],
          uuid |-> uuid + 1]

\* what a lookup hands back, with the local table and token counter it
\* leaves and the get_user_data calls it made
Looked(subscriber, ud, created, subs, uuid, calls) ==
    [subscriber |-> subscriber, user_data |-> ud, created |-> created,
     subs |-> subs, uuid |-> uuid, calls |-> calls]

\* a faulty lookup_subscriber: a token unknown everywhere gets a new
\* Subscriber as an unknown email does
lookup_subscriber_creates(subs, uuid, token, email, f) ==
    LET local == SubscriberGet(subs, token, email)
        got == get_user_data(token, email, f)
        synced == SyncOnRead(subs, got.result, TRUE)
        calls == <<CallOf(token, email, TRUE, f, got)>>
        key == IF email # "" THEN email ELSE "e1@x"
        made == get_or_create(subs, uuid, key)
    IN  IF local # NoSubscriber THEN Looked(local, None, FALSE, subs, uuid, <<>>)
        ELSE IF got.result.status = "ok"
        THEN Looked(SubscriberGet(synced, token, email), got.result, TRUE, synced,
                    uuid, calls)
        ELSE Looked(made.subscriber, got.result, made.created, made.subs,
                    made.uuid, calls)

\* a faulty lookup_subscriber: the platform is asked before the local table
lookup_subscriber_remote_first(subs, uuid, token, email, f) ==
    LET local == SubscriberGet(subs, token, email)
        got == get_user_data(token, email, f)
        synced == SyncOnRead(subs, got.result, TRUE)
        calls == <<CallOf(token, email, TRUE, f, got)>>
        made == get_or_create(subs, uuid, email)
    IN  IF got.result.status = "ok"
        THEN Looked(SubscriberGet(synced, token, email), got.result, TRUE, synced,
                    uuid, calls)
        ELSE IF local # NoSubscriber THEN Looked(local, None, FALSE, subs, uuid, calls)
        ELSE IF email # ""
        THEN Looked(made.subscriber, got.result, made.created, made.subs,
                    made.uuid, calls)
        ELSE Looked(NoSubscriber, got.result, TRUE, subs, uuid, calls)

\* lookup_subscriber after Subscriber.DoesNotExist: got is what
\* get_user_data(sync_data=True, **kwargs) returned
NotLocal(subs, uuid, token, email, f, got) ==
    LET synced == SyncOnRead(subs, got.result, TRUE)
        calls == <<CallOf(token, email, TRUE, f, got)>>
        made == get_or_create(subs, uuid, email)
    IN  IF got.result.status = "ok"
        THEN Looked(SubscriberGet(synced, token, email), got.result, TRUE, synced,
                    uuid, calls)
        ELSE IF email # ""
        THEN Looked(made.subscriber, got.result, made.created, made.subs,
                    made.uuid, calls)
        ELSE Looked(NoSubscriber, got.result, TRUE, subs, uuid, calls)

\* lookup_subscriber(token, email), the outcome of the call to each database
\* being f[database]
lookup_subscriber(subs, uuid, token, email, f) ==
    LET local == SubscriberGet(subs, token, email)
    IN  IF local # NoSubscriber THEN Looked(local, None, FALSE, subs, uuid, <<>>)
        ELSE NotLocal(subs, uuid, token, email, f, get_user_data(token, email, f))

\* newsletter_languages(): the languages of all newsletters
newsletter_languages ==
    UNION {{Catalog[i].languages[j] : j \in 1..Len(Catalog[i].languages)} :
             i \in 1..Len(Catalog)}

\* code[:2]
Prefix2(code) == IF Len(code) <= 2 THEN code ELSE SubSeq(code, 1, 2)

language_code_is_valid(code) ==
    LET langs == {""} \cup {lower(l) : l \in newsletter_languages}
        c == lower(code)
    IN  IF c \in langs THEN TRUE
        ELSE IF Len(c) \in {2, 5}
        THEN \E lang \in langs : Prefix2(c) = Prefix2(lang)
        ELSE FALSE

\* HttpResponseJSON(data, status)
Response(status_code, status, code, token, created) ==
    [status_code |-> status_code, status |-> status, code |-> code,
     token |-> token, created |-> created]

\* what serving a request does: the response, the tasks queued, the local
\* table and token counter left, the get_user_data calls made
Outcome(response, queued, subs, uuid, calls) ==
    [resp |-> response, queued |-> queued, subs |-> subs, uuid |-> uuid,
     calls |-> calls]

Rejected(status_code, code, subs, uuid, calls) ==
    Outcome(Response(status_code, "error", code, "", FALSE), <<>>, subs, uuid, calls)

\* update_user.delay(data, sub.email, sub.token, created, type, optin)
UpdateUserCall(d, sub, created, tp, optin) ==
    [task |-> "update_user", data |-> d, email |-> sub.email, token |-> sub.token,
     created |-> created, type |-> tp, optin |-> optin]

\* a faulty update_user_task: the Subscriber is looked up before the request
\* is validated
update_user_task_lookup_first(subs, uuid, sub, tp, d, optin, f) ==
    LET newsletters == Get(d, "newsletters", <<"">>)
        slugs == {newsletter_slugs[i] : i \in 1..Len(newsletter_slugs)}
        email == Get(d, "email", "")
        found == IF sub = NoSubscriber /\ email # ""
                 THEN lookup_subscriber(subs, uuid, "", email, f)
                 ELSE Looked(sub, None, FALSE, subs, uuid, <<>>)
    IN  IF newsletters # <<"">>
           /\ \E i \in 1..Len(newsletters) : strip(newsletters[i]) \notin slugs
        THEN Rejected(400, BASKET_INVALID_NEWSLETTER, found.subs, found.uuid, found.calls)
        ELSE IF "lang" \in DOMAIN d /\ ~language_code_is_valid(d["lang"])
        THEN Rejected(400, BASKET_INVALID_LANGUAGE, found.subs, found.uuid, found.calls)
        ELSE IF email = "" /\ sub = NoSubscriber
        THEN Rejected(400, BASKET_USAGE_ERROR, subs, uuid, <<>>)
        ELSE Outcome(Response(200, "ok", "", found.subscriber.token, found.created),
                     <<UpdateUserCall(d, found.subscriber, found.created, tp, optin)>>,
                     found.subs, found.uuid, found.calls)

\* a faulty update_user_task: the task is queued with the created flag unset
update_user_task_created_lost(subs, uuid, sub, tp, d, optin, f) ==
    LET newsletters == Get(d, "newsletters", <<"">>)
        slugs == {newsletter_slugs[i] : i \in 1..Len(newsletter_slugs)}
        email == Get(d, "email", "")
        found == IF sub = NoSubscriber
                 THEN lookup_subscriber(subs, uuid, "", email, f)
                 ELSE Looked(sub, None, FALSE, subs, uuid, <<>>)
    IN  IF newsletters # <<"">>
           /\ \E i \in 1..Len(newsletters) : strip(newsletters[i]) \notin slugs
        THEN Rejected(400, BASKET_INVALID_NEWSLETTER, subs, uuid, <<>>)
        ELSE IF "lang" \in DOMAIN d /\ ~language_code_is_valid(d["lang"])
        THEN Rejected(400, BASKET_INVALID_LANGUAGE, subs, uuid, <<>>)
        ELSE IF email = "" /\ sub = NoSubscriber
        THEN Rejected(400, BASKET_USAGE_ERROR, subs, uuid, <<>>)
        ELSE Outcome(Response(200, "ok", "", found.subscriber.token, found.created),
                     <<UpdateUserCall(d, found.subscriber, FALSE, tp, optin)>>,
                     found.subs, found.uuid, found.calls)

\* update_user_task past its validation: found is request.subscriber or
\* what lookup_subscriber(email=email) returned
Accepted(d, tp, optin, found) ==
    Outcome(Response(200, "ok", "", found.subscriber.token, found.created),
            <<UpdateUserCall(d, found.subscriber, found.created, tp, optin)>>,
            found.subs, found.uuid, found.calls)

\* update_user_task(request, type, data, optin); sub is request.subscriber
update_user_task(subs, uuid, sub, tp, d, optin, f) ==
    LET newsletters == Get(d, "newsletters", <<"">>)
        slugs == {newsletter_slugs[i] : i \in 1..Len(newsletter_slugs)}
        email == Get(d, "email", "")
    IN  IF newsletters # <<"">>
           /\ \E i \in 1..Len(newsletters) : strip(newsletters[i]) \notin slugs
        THEN Rejected(400, BASKET_INVALID_NEWSLETTER, subs, uuid, <<>>)
        ELSE IF "lang" \in DOMAIN d /\ ~language_code_is_valid(d["lang"])
        THEN Rejected(400, BASKET_INVALID_LANGUAGE, subs, uuid, <<>>)
        ELSE IF email = "" /\ sub = NoSubscriber
        THEN Rejected(400, BASKET_USAGE_ERROR, subs, uuid, <<>>)
        ELSE Accepted(d, tp, optin,
                      IF sub = NoSubscriber
                      THEN lookup_subscriber(subs, uuid, "", email, f)
                      ELSE Looked(sub, None, FALSE, subs, uuid, <<>>))

\* the wrapper of logged_in when no subscriber is found
Forbidden(found) ==
    Rejected(403, BASKET_USAGE_ERROR, found.subs, found.uuid, found.calls)

\* the POST data of the requests
ViewData ==
    {[email |-> "e1@x", newsletters |-> <<"news-a">>],
     [email |-> "e2@x", newsletters |-> <<"news-a">>, lang |-> "en-GB",
      optin |-> "N"],
     [email |-> "e1@x", newsletters |-> <<" news-a", "nope">>],
     [email |-> "e1@x", newsletters |-> <<"news-a">>, lang |-> "zz"],
     [newsletters |-> <<"news-a">>],
     [optout |-> "Y"]}

\* the POST data of the requests behind logged_in
LoggedInData ==
    {[newsletters |-> <<"news-a">>],
     [email |-> "e1@x", newsletters |-> <<" news-a", "nope">>],
     [optout |-> "Y"]}

\* the tokens a request can carry: those of the local Subscribers, the one
\* the platform holds for e1@x and one that nobody has
ViewTokens ==
    {subscribers[e] : e \in DOMAIN subscribers} \cup {RemoteToken["e1@x"], "zz"}

\* the outcomes of the platform calls of one request: lookup_subscriber
\* treats every failure alike
ViewFaults == {f \in FaultPlans : \A d \in Databases : f[d] # "UnauthorizedException"}

NoResponse == Response(0, "", "", "", FALSE)

NoRequest == [view |-> "", token |-> "", email |-> "", data |-> EmptyRecord,
              type |-> 0, optin |-> FALSE, sub |-> NoSubscriber, ran |-> FALSE,
              tasked |-> FALSE, calls |-> 0, guard_calls |-> 0, queued |-> <<>>,
              before |-> EmptyRecord, entered |-> EmptyRecord,
              local |-> FALSE, remote |-> FALSE]

\* a request that is not behind logged_in has no request.subscriber
NotLoggedIn == Looked(NoSubscriber, None, FALSE, subscribers, nextUuid, <<>>)

\* the subscriber a request names by token or by email is in the local
\* table; is in the master or the pending partition of the platform
NamedLocally(token, email) ==
    (token # "" \/ email # "") /\ SubscriberGet(subscribers, token, email) # NoSubscriber

NamedRemotely(token, email) ==
    /\ token # "" \/ email # ""
    /\ LET s == Subject(token, email) IN s.master \/ s.optin

\* the effects of serving a request: its response and the tasks it queues;
\* `req` logs the request, what logged_in found for it (found), whether the
\* handler body ran, and the call of update_user_task the body made, if any
Serve(view, token, email, found, ran, call, out) ==
    /\ served' = served + 1
    /\ resp' = out.resp
    /\ queue' = queue \o out.queued
    /\ subscribers' = out.subs
    /\ nextUuid' = out.uuid
    /\ ret' = IF out.calls = <<>> THEN ret ELSE out.calls[Len(out.calls)]
    /\ req' = [view |-> view, token |-> token, email |-> email, data |-> call.data,
               type |-> call.type, optin |-> call.optin, sub |-> found.subscriber,
               ran |-> ran, tasked |-> call.tasked,
               calls |-> Len(out.calls), guard_calls |-> Len(found.calls),
               queued |-> out.queued,
               before |-> subscribers, entered |-> found.subs,
               local |-> NamedLocally(token, email),
               remote |-> NamedRemotely(token, email)]
    /\ UNCHANGED <<remoteVars, pc, runs, data, type, user_data, record, target_et,
                   welcome, writes, sends, again, workers>>

\* the call of update_user_task a handler makes; none
TaskCall(tp, d, optin) == [tasked |-> TRUE, type |-> tp, data |-> d, optin |-> optin]

NoTaskCall == [tasked |-> FALSE, type |-> 0, data |-> EmptyRecord, optin |-> FALSE]

\* POST /subscribe
Subscribe ==
    \E d \in ViewData, f \in ViewFaults :
        /\ pc = "idle"
        /\ served < MaxRequests
        /\ LET optin == Get(d, "optin", "Y") = "Y"
               given == Get(d, "newsletters", <<"">>) # <<"">>
           IN  \E out \in {IF ~given
                           THEN Rejected(400, BASKET_USAGE_ERROR, subscribers,
                                         nextUuid, <<>>)
                           ELSE update_user_task(subscribers, nextUuid, NoSubscriber,
                                                 SUBSCRIBE, d, optin, f)} :
                   Serve("subscribe", "", Get(d, "email", ""), NotLoggedIn, TRUE,
                         IF given THEN TaskCall(SUBSCRIBE, d, optin) ELSE NoTaskCall,
                         out)

\* POST /unsubscribe/<token>, behind logged_in
Unsubscribe ==
    \E token \in ViewTokens, d \in LoggedInData, f \in ViewFaults :
        /\ pc = "idle"
        /\ served < MaxRequests
        /\ \E found \in {lookup_subscriber(subscribers, nextUuid, token, "", f)} :
            LET posted == IF Get(d, "optout", "N") = "Y"
                          THEN Put(d, "newsletters", newsletter_slugs) ELSE d
                ran == found.subscriber # NoSubscriber
            IN  \E body \in {IF ran
                             THEN update_user_task(found.subs, found.uuid,
                                                   found.subscriber, UNSUBSCRIBE,
                                                   posted, TRUE, f)
                             ELSE Forbidden(found)} :
                    Serve("unsubscribe", token, "", found, ran,
                          IF ran THEN TaskCall(UNSUBSCRIBE, posted, TRUE)
                          ELSE NoTaskCall,
                          Outcome(body.resp, body.queued, body.subs, body.uuid,
                                  IF ran THEN found.calls \o body.calls
                                  ELSE body.calls))

\* POST /confirm/<token>, behind logged_in
Confirm ==
    \E token \in ViewTokens, f \in ViewFaults :
        /\ pc = "idle"
        /\ served < MaxRequests
        /\ \E found \in {lookup_subscriber(subscribers, nextUuid, token, "", f)} :
            LET ran == found.subscriber # NoSubscriber
            IN  Serve("confirm", token, "", found, ran, NoTaskCall,
                      IF ~ran THEN Forbidden(found)
                      ELSE Outcome(Response(200, "ok", "", "", FALSE),
                                   <<[task |-> "confirm_user",
                                      token |-> found.subscriber.token,
                                      user_data |-> found.user_data]>>,
                                   found.subs, found.uuid, found.calls))

----------------------------------------------------------------------------
(* lookup_user: the fetcher behind an HTTP view *)

BASKET_SSL_REQUIRED == "BASKET_SSL_REQUIRED"
BASKET_AUTH_ERROR == "BASKET_AUTH_ERROR"
BASKET_UNKNOWN_TOKEN == "BASKET_UNKNOWN_TOKEN"
BASKET_UNKNOWN_EMAIL == "BASKET_UNKNOWN_EMAIL"

\* HttpResponseJSON(user_data, status_code), with the get_user_data calls made
Answer(status_code, body, calls) ==
    [status_code |-> status_code, body |-> body, calls |-> calls]

ErrorBody(code) == [status |-> "error", code |-> code]

\* lookup_user once its checks have passed: got is what get_user_data returned
Fetched(token, email, f, got) ==
    LET calls == <<CallOf(token, email, FALSE, f, got)>>
    IN  IF got.result = None
        THEN Answer(404, ErrorBody(IF token # "" THEN BASKET_UNKNOWN_TOKEN
                                   ELSE BASKET_UNKNOWN_EMAIL), calls)
        ELSE IF got.result.status = "error" THEN Answer(400, got.result, calls)
        ELSE Answer(200, got.result, calls)

\* a faulty lookup_user: a lookup by email is served without a valid API key
lookup_user_key_unchecked(secure, token, email, valid_key, f) ==
    IF ~secure THEN Answer(401, ErrorBody(BASKET_SSL_REQUIRED), <<>>)
    ELSE IF (email = "" /\ token = "") \/ (email # "" /\ token # "")
    THEN Answer(400, ErrorBody(BASKET_USAGE_ERROR), <<>>)
    ELSE Fetched(token, email, f, get_user_data(token, email, f))

\* lookup_user(request): secure is request.is_secure(), valid_key is
\* APIUser.is_valid(api_key)
lookup_user(secure, token, email, valid_key, f) ==
    IF ~secure THEN Answer(401, ErrorBody(BASKET_SSL_REQUIRED), <<>>)
    ELSE IF (email = "" /\ token = "") \/ (email # "" /\ token # "")
    THEN Answer(400, ErrorBody(BASKET_USAGE_ERROR), <<>>)
    ELSE IF email # "" /\ ~valid_key
    THEN Answer(401, ErrorBody(BASKET_AUTH_ERROR), <<>>)
    ELSE Fetched(token, email, f, get_user_data(token, email, f))

\* GET /lookup-user
LookupUser ==
    \E secure \in BOOLEAN, valid_key \in BOOLEAN, email \in {"", "e1@x"},
       token \in {"", RemoteToken["e1@x"]}, f \in FaultPlans :
        /\ pc = "idle"
        /\ \E out \in {lookup_user(secure, token, email, valid_key, f)} :
              /\ resp' = [status_code |-> out.status_code, body |-> out.body]
              /\ ret' = IF out.calls = <<>> THEN ret ELSE out.calls[1]
              /\ req' = [view |-> "lookup_user", secure |-> secure,
                         valid_key |-> valid_key, email |-> email, token |-> token,
                         calls |-> Len(out.calls)]
        /\ UNCHANGED <<subscribers, remoteVars, runVars, queue, served, workers>>

----------------------------------------------------------------------------
(* delete_user: the remote deletion, then the local one *)

\* where the remote session can fail, and how; at = "" when it does not
DeleteFaults ==
    {[at |-> "", exc |-> ""]}
    \cup {[at |-> a, exc |-> x] : a \in {"login", "delete_list_members", "logout"},
                                 x \in {"NewsletterException", "UnauthorizedException"}}

DeleteFaults_none == [at |-> "", exc |-> ""]

\* a table without the row of an email
Without(rows, email) == [e \in (DOMAIN rows) \ {email} |-> rows[e]]

\* what delete_user leaves: the response status, the local table and the
\* two partitions of the platform
Deleted(status_code, subs, master, optin) ==
    [status_code |-> status_code, subs |-> subs, master |-> master, optin |-> optin]

\* the platform after the session: the member is gone once
\* delete_list_members has returned
AfterSession(rows, email, fault) ==
    IF fault.at \in {"", "logout"} THEN Without(rows, email) ELSE rows

\* a faulty delete_user: the local Subscriber is deleted before the session
delete_user_local_first(subs, master, optin, sub, fault) ==
    Deleted(IF fault.at # "" THEN 500 ELSE 200, Without(subs, sub.email),
            AfterSession(master, sub.email, fault),
            AfterSession(optin, sub.email, fault))

\* delete_user(request, token); sub is request.subscriber
delete_user(subs, master, optin, sub, fault) ==
    IF fault.at # ""
    THEN Deleted(500, subs, AfterSession(master, sub.email, fault),
                 AfterSession(optin, sub.email, fault))
    ELSE Deleted(200, Without(subs, sub.email), Without(master, sub.email),
                 Without(optin, sub.email))

\* the view behind the logged_in of its module: a token no local Subscriber
\* has is answered 403
DeleteUser ==
    \E token \in ViewTokens, fault \in DeleteFaults :
        /\ pc = "idle"
        /\ LET sub == SubscriberGet(subscribers, token, "")
           IN  \E out \in {IF sub = NoSubscriber
                           THEN Deleted(403, subscribers, etMaster, etOptin)
                           ELSE delete_user(subscribers, etMaster, etOptin, sub,
                                            fault)} :
                   /\ resp' = [status_code |-> out.status_code]
                   /\ subscribers' = out.subs
                   /\ etMaster' = out.master
                   /\ etOptin' = out.optin
                   /\ req' = [view |-> "delete_user", token |-> token, sub |-> sub,
                              fault |-> IF sub = NoSubscriber THEN DeleteFaults_none
                                        ELSE fault,
                              before |-> subscribers]
        /\ UNCHANGED <<etConfirmation, ret, runVars, queue, served, workers>>

----------------------------------------------------------------------------
(* Concurrent runs of update_user: each worker process runs one task; the  *)
(* steps are the task's accesses to the local table and to the platform    *)

Workers == {"w1", "w2"}

\* the requests the concurrent tasks are started on
WorkerRequests ==
    {Request(e, <<"news-a">>, {}) : e \in Emails}
    \cup {Request(e, <<" news-a", "news-b ">>, {"lang"}) : e \in Emails}

\* the outcomes of a worker's add_record and trigger_send calls
WorkerWriteOutcomes == {out \in WriteOutcomes : out.exc # "UnauthorizedException"}
WorkerSendOutcomes == Outcomes \ {"UnauthorizedException"}

\* a worker process with no task
WorkerIdle ==
    [pc |-> "idle", data |-> EmptyRecord, type |-> SUBSCRIBE, sub |-> NoSubscriber,
     created |-> FALSE, record |-> EmptyRecord, target_et |-> "", welcome |-> "",
     writes |-> <<>>, sends |-> <<>>]

\* sub.save(): the row of the Subscriber object is written back
save(subs, sub) == get_and_sync(subs, sub.email, sub.token)

\* the task is picked up by a worker
TaskStart ==
    \E w \in Workers, d \in WorkerRequests, tp \in {SUBSCRIBE, UNSUBSCRIBE, SET} :
        /\ workers[w].pc = "idle"
        /\ workers' = [workers EXCEPT ![w] = [WorkerIdle EXCEPT !.pc = "create",
                                                                  !.data = d,
                                                                  !.type = tp]]
        /\ UNCHANGED <<subscribers, remoteVars, ret, runVars, viewVars>>

\* (sub, created) = Subscriber.objects.get_or_create(email=record['EMAIL_ADDRESS_'])
TaskGetOrCreate ==
    \E w \in Workers :
        /\ workers[w].pc = "create"
        /\ nextUuid < Len(UuidName)
        /\ \E got \in {get_or_create(subscribers, nextUuid, workers[w].data["email"])} :
              /\ subscribers' = got.subs
              /\ nextUuid' = got.uuid
              /\ workers' = [workers EXCEPT ![w].pc = "token",
                                            ![w].sub = got.subscriber,
                                            ![w].created = got.created]
        /\ UNCHANGED <<remoteVars, ret, taskVars, viewVars>>

\* if created: sub.token = str(uuid.uuid4()); ...; sub.save(); then the
\* partition and the message are chosen
TaskToken ==
    \E w \in Workers :
        /\ workers[w].pc = "token"
        /\ workers[w].created => nextUuid < Len(UuidName)
        /\ \E sub \in {IF workers[w].created
                       THEN [workers[w].sub EXCEPT !.token = UuidName[nextUuid + 1]]
                       ELSE workers[w].sub} :
           \E t \in {Targeted(StampedRecord(ParsedRecord(workers[w].data, workers[w].type),
                                            workers[w].created, sub.token),
                              workers[w].data, workers[w].type)} :
              /\ subscribers' = IF workers[w].created THEN save(subscribers, sub)
                                ELSE subscribers
              /\ nextUuid' = IF workers[w].created THEN nextUuid + 1 ELSE nextUuid
              /\ workers' = [workers EXCEPT ![w].pc = "write",
                                            ![w].sub = sub,
                                            ![w].record = t.record,
                                            ![w].target_et = t.target_et,
                                            ![w].welcome = t.welcome]
        /\ UNCHANGED <<remoteVars, ret, taskVars, viewVars>>

\* the first add_record of a worker's task
TaskAddRecord ==
    \E w \in Workers, out \in WorkerWriteOutcomes :
        /\ workers[w].pc = "write"
        /\ IF IsOk(out) THEN Applied(workers[w].target_et, workers[w].record)
           ELSE UNCHANGED remoteVars
        /\ workers' = [workers EXCEPT
              ![w].writes = Append(@, [database |-> workers[w].target_et,
                                       record |-> workers[w].record, out |-> out]),
              ![w].record = IF ~IsOk(out) /\ MissingCreatedDate(out)
                            THEN RecoveryRecord(@) ELSE @,
              ![w].pc = IF IsOk(out) THEN "trigger"
                        ELSE IF MissingCreatedDate(out) THEN "recover"
                        ELSE handle_exception(out)]
        /\ UNCHANGED <<subscribers, ret, runVars, viewVars>>

\* the add_record inside the except clause of a worker's task
TaskAddRecordAgain ==
    \E w \in Workers, out \in WorkerWriteOutcomes :
        /\ workers[w].pc = "recover"
        /\ IF IsOk(out) THEN Applied(workers[w].target_et, workers[w].record)
           ELSE UNCHANGED remoteVars
        /\ workers' = [workers EXCEPT
              ![w].writes = Append(@, [database |-> workers[w].target_et,
                                       record |-> workers[w].record, out |-> out]),
              ![w].pc = AfterRecovery(out)]
        /\ UNCHANGED <<subscribers, ret, runVars, viewVars>>

\* the trigger_send of a worker's task, when there is a message
TaskTriggerSend ==
    \E w \in Workers, out \in WorkerSendOutcomes :
        /\ workers[w].pc = "trigger"
        /\ workers[w].welcome = "" => out = "ok"
        /\ workers' = [workers EXCEPT
              ![w].sends = IF workers[w].welcome # ""
                           THEN Append(@, [message |-> workers[w].welcome,
                                           email |-> workers[w].record["EMAIL_ADDRESS_"],
                                           token |-> workers[w].record["TOKEN"],
                                           format |-> Get(workers[w].record,
                                                          "EMAIL_FORMAT_", "H"),
                                           out |-> out])
                           ELSE @,
              ![w].pc = IF out = "ok" THEN "done" ELSE handle_exception(out)]
        /\ UNCHANGED <<subscribers, remoteVars, ret, runVars, viewVars>>

----------------------------------------------------------------------------
(* The fetcher against every content of the remote platform *)

NoCall == [token |-> "", email |-> "", sync_data |-> FALSE, result |-> None,
           queried |-> <<>>, outs |-> <<>>, before |-> EmptyRecord,
           subject |-> [master |-> FALSE, optin |-> FALSE, confirmation |-> FALSE]]

\* a row of subscriber e as the platform stores it
RemoteRow(e, flag) ==
    [x \in {"EMAIL_ADDRESS_", "TOKEN", "EMAIL_FORMAT_", "COUNTRY_", "LANGUAGE_ISO2",
            "CREATED_DATE_", "A_FLG"} |->
        CASE x = "EMAIL_ADDRESS_" -> e
          [] x = "TOKEN" -> RemoteToken[e]
          [] x = "EMAIL_FORMAT_" -> ""
          [] x = "COUNTRY_" -> "us"
          [] x = "LANGUAGE_ISO2" -> ""
          [] x = "CREATED_DATE_" -> "then"
          [] OTHER -> flag]

RunIdle ==
    /\ pc = "idle"
    /\ runs = 0
    /\ data = EmptyRecord
    /\ type = SUBSCRIBE
    /\ user_data = None
    /\ record = EmptyRecord
    /\ target_et = ""
    /\ welcome = ""
    /\ writes = <<>>
    /\ sends = <<>>
    /\ nextUuid = 0
    /\ again = FALSE
    /\ queue = <<>>
    /\ resp = NoResponse
    /\ req = NoRequest
    /\ served = 0
    /\ workers = [w \in Workers |-> WorkerIdle]

InitFetch ==
    /\ \E known \in SUBSET {"e1@x"} : subscribers = [e \in known |-> "lt1"]
    /\ \E inMaster \in SUBSET {"e1@x"} :
          etMaster = [e \in inMaster \cup {"e2@x"} |-> RemoteRow(e, "Y")]
    /\ \E inOptin \in SUBSET {"e1@x"} : etOptin = [e \in inOptin |-> RemoteRow(e, "Y")]
    /\ etConfirmation = {}
    /\ ret = NoCall
    /\ RunIdle

NextFetch == GetUserData \/ ConfirmUser

SpecFetch == InitFetch /\ [][NextFetch]_vars

NextLookup == LookupUser

SpecLookup == InitFetch /\ [][NextLookup]_vars

\* delete_user against every content of the local table and the platform:
\* a local Subscriber carries the token of the platform or one made up locally
InitDelete ==
    /\ \E known \in SUBSET Emails :
          \E made \in SUBSET known :
              subscribers = [e \in known |->
                                IF e \in made
                                THEN (IF e = "e1@x" THEN "lt1" ELSE "lt2")
                                ELSE RemoteToken[e]]
    /\ \E inMaster \in SUBSET Emails :
          etMaster = [e \in inMaster |-> RemoteRow(e, "Y")]
    /\ \E inOptin \in SUBSET Emails : etOptin = [e \in inOptin |-> RemoteRow(e, "Y")]
    /\ etConfirmation = {}
    /\ ret = NoCall
    /\ RunIdle

NextDelete == DeleteUser

SpecDelete == InitDelete /\ [][NextDelete]_vars

\* the deployment the concurrent tasks start in: e1@x is subscribed and known
\* locally, e2@x is unknown everywhere
StartSubscribers == [e \in {"e1@x"} |-> RemoteToken[e]]
StartMaster == [e \in {"e1@x"} |-> RemoteRow(e, "Y")]
StartOptin == EmptyRecord

InitWorkers ==
    /\ subscribers = StartSubscribers
    /\ etMaster = StartMaster
    /\ etOptin = StartOptin
    /\ etConfirmation = {}
    /\ ret = NoCall
    /\ RunIdle

NextWorkers ==
    \/ TaskStart \/ TaskGetOrCreate \/ TaskToken
    \/ TaskAddRecord \/ TaskAddRecordAgain \/ TaskTriggerSend

SpecWorkers == InitWorkers /\ [][NextWorkers]_vars

NextViews == Subscribe \/ Unsubscribe \/ Confirm

SpecViews == InitFetch /\ [][NextViews]_vars

----------------------------------------------------------------------------
(* Properties of the fetcher.  `ret` is the last call of get_user_data and *)
(* ret.subject where the platform held the subscriber when it was made.    *)

Called == ret.queried # <<>>

SubjectInMaster == ret.subject.master
SubjectInOptin == ret.subject.optin
SubjectInConfirmation == ret.subject.confirmation

NoQueryFailed == \A i \in 1..Len(ret.outs) : ret.outs[i] = "ok"

\* C1: a subscriber absent from the master partition, present in the pending
\* partition and present in the Confirmation partition is reported
\* confirmed=True, master=False.
C1_ConfirmationLag ==
    (Called /\ NoQueryFailed /\ ~SubjectInMaster /\ SubjectInOptin
        /\ SubjectInConfirmation)
    => (ret.result.status = "ok" /\ ret.result.confirmed /\ ~ret.result.master)

\* C2: a subscriber absent from the master partition, present in the pending
\* partition and absent from the Confirmation partition is reported
\* pending=True, confirmed=False, master=False.
C2_PendingReported ==
    (Called /\ NoQueryFailed /\ ~SubjectInMaster /\ SubjectInOptin
        /\ ~SubjectInConfirmation)
    => (ret.result.status = "ok" /\ ret.result.pending
        /\ ~ret.result.confirmed /\ ~ret.result.master)

\* C3: a subscriber found in the master partition is reported master=True,
\* confirmed=True, pending=False, and that fetch queries neither the pending
\* nor the Confirmation partition.
C3_MasterFoundStops ==
    (Called /\ ret.outs[1] = "ok" /\ SubjectInMaster)
    => /\ ret.result.status = "ok"
       /\ ret.result.master /\ ret.result.confirmed /\ ~ret.result.pending
       /\ ret.queried = <<EXACTTARGET_DATA>>

C3_Witness ==
    /\ Called /\ ret.outs[1] = "ok" /\ SubjectInMaster
    /\ ret.result.status = "ok" /\ ret.result.master
    /\ SubjectInOptin

\* C4: for a subscriber in neither the master nor the pending partition, no
\* query failing, the result is None, the Confirmation partition is not
\* queried and the local Subscriber table is unchanged, sync_data or not.
C4_UnknownIsNone ==
    (Called /\ NoQueryFailed /\ ~SubjectInMaster /\ ~SubjectInOptin)
    => /\ ret.result = None
       /\ \A i \in 1..Len(ret.queried) : ret.queried[i] # EXACTTARGET_CONFIRMATION
       /\ subscribers = ret.before

C4_Witness ==
    /\ Called /\ NoQueryFailed /\ ~SubjectInMaster /\ ~SubjectInOptin
    /\ ret.sync_data /\ ret.email # "" /\ ret.email \notin DOMAIN subscribers
    /\ ret.result = None
    /\ etConfirmation # {}

\* C5: a fetch in which a query fails with NewsletterException or
\* UnauthorizedException returns status 'error' with the network-failure or
\* auth-failure code respectively, and does not sync the local table; a fetch
\* in which no query fails never returns an error.
C5_FailureIsError ==
    Called =>
      /\ \A i \in 1..Len(ret.outs) :
            /\ ret.outs[i] = "NewsletterException"
                 => (ret.result.status = "error"
                     /\ ret.result.code = BASKET_NETWORK_FAILURE)
            /\ ret.outs[i] = "UnauthorizedException"
                 => (ret.result.status = "error"
                     /\ ret.result.code = BASKET_EMAIL_PROVIDER_AUTH_FAILURE)
            /\ ret.outs[i] # "ok" => subscribers = ret.before
      /\ NoQueryFailed => ret.result.status \in {"None", "ok"}

C5_Witness ==
    /\ Called /\ ret.sync_data
    /\ Len(ret.outs) = 3 /\ ret.outs[3] = "UnauthorizedException"
    /\ ret.result.status = "error"
    /\ ret.email # "" /\ ret.email \notin DOMAIN subscribers


----------------------------------------------------------------------------
(* The reconciliation from a fresh deployment *)

Init ==
    /\ subscribers = EmptyRecord
    /\ etMaster = EmptyRecord
    /\ etOptin = EmptyRecord
    /\ etConfirmation = {}
    /\ ret = NoCall
    /\ RunIdle

Next == UpdateUserStart \/ Fetch \/ Build \/ AddRecord \/ AddRecordAgain \/ TriggerSend

Spec == Init /\ [][Next]_vars

----------------------------------------------------------------------------
(* Properties of one run of update_user.  `writes` and `sends` are the     *)
(* add_record and trigger_send calls of the current run.                   *)

NamesCreatedDate(out) ==
    ~IsOk(out) /\ \E i \in 1..Len(out.message) : out.message[i] = "CREATED_DATE_"

\* the row a successful write of this run left on the platform still holds
\* every field of that write
WriteStands ==
    \A i \in 1..Len(writes) :
        IsOk(writes[i].out) =>
            LET rows == IF writes[i].database = EXACTTARGET_DATA THEN etMaster ELSE etOptin
                key == writes[i].record["EMAIL_ADDRESS_"]
            IN  /\ key \in DOMAIN rows
                /\ \A k \in DOMAIN writes[i].record :
                      k \in DOMAIN rows[key] /\ rows[key][k] = writes[i].record[k]

\* C6: a write rejected with a message naming CREATED_DATE_ is resubmitted
\* exactly once, to the same partition, with the creation date added; if the
\* resubmission is rejected too the run ends in error; a run never issues a
\* third write.
C6_RecoveryOnce ==
    /\ Len(writes) <= 2
    /\ (Len(writes) >= 1 /\ NamesCreatedDate(writes[1].out) /\ pc # "recover")
       => /\ Len(writes) = 2
          /\ writes[2].database = writes[1].database
          /\ DOMAIN writes[2].record = (DOMAIN writes[1].record) \cup {"CREATED_DATE_"}
          /\ \A k \in (DOMAIN writes[1].record) \ {"CREATED_DATE_"} :
                writes[2].record[k] = writes[1].record[k]
          /\ ~IsOk(writes[2].out) => pc = "error"

C6_Witness ==
    /\ Len(writes) = 2
    /\ NamesCreatedDate(writes[1].out) /\ NamesCreatedDate(writes[2].out)
    /\ "CREATED_DATE_" \notin DOMAIN writes[1].record
    /\ pc = "error"

\* C7: a write rejected for any other reason is not resubmitted, the run
\* ends in error and no message is triggered.
C7_OtherRejectionFinal ==
    (Len(writes) >= 1 /\ ~IsOk(writes[1].out) /\ ~NamesCreatedDate(writes[1].out))
    => (Len(writes) = 1 /\ pc = "error" /\ sends = <<>>)

C7_Witness ==
    /\ Len(writes) = 1 /\ ~IsOk(writes[1].out) /\ ~NamesCreatedDate(writes[1].out)
    /\ welcome # ""
    /\ pc = "error"

\* C8: a failure while triggering a message does not make the run end in
\* error and does not undo the write already applied.
C8_TriggerFailureIsolated ==
    (\E i \in 1..Len(sends) : sends[i].out # "ok")
    => (pc # "error" /\ WriteStands)

\* C9: a message is sent only after a write of the run has succeeded, and a
\* run in which a write succeeded, at once or on the resubmission, attempts
\* the selected message.
C9_TriggerAfterWrite ==
    /\ sends # <<>> => SomeWriteSucceeded
    /\ (pc \in {"done", "error"} /\ SomeWriteSucceeded /\ welcome # "")
       => (Len(sends) = 1 /\ sends[1].message = welcome)

C9_Witness ==
    /\ pc = "done"
    /\ Len(writes) = 2 /\ IsOk(writes[2].out)
    /\ Len(sends) = 1 /\ sends[1].message = welcome

FetchFailed == \E i \in 1..Len(ret.outs) : ret.outs[i] # "ok"

----------------------------------------------------------------------------
(* Properties of the field map.  user_data is the snapshot the run        *)
(* fetched: status "ok" when the platform holds the subscriber, None when *)
(* it does not.                                                            *)

VendorIds == {Catalog[i].vendor_id : i \in 1..Len(Catalog)}

\* the catalog newsletters the request names, by vendor id
RequestedIds ==
    LET newsletters == Get(data, "newsletters", <<"">>)
    IN  {newsletter_field(strip(newsletters[i])) : i \in 1..Len(newsletters)} \ {""}

\* the catalog newsletters the snapshot shows subscribed, by vendor id
SnapshotIds ==
    IF user_data.status = "ok"
    THEN {slug_to_vendor_id(user_data.newsletters[i]) :
            i \in 1..Len(user_data.newsletters)}
    ELSE {}

HasFlag(rec, v) == (v \o "_FLG") \in DOMAIN rec
HasDate(rec, v) == (v \o "_DATE") \in DOMAIN rec

\* the write sets the flag of newsletter v to `flag` and stamps its date
Marks(rec, v, flag) ==
    /\ HasFlag(rec, v) /\ rec[v \o "_FLG"] = flag
    /\ HasDate(rec, v) /\ rec[v \o "_DATE"] = today

C12_ResubscribeOmitted ==
    type \in {SUBSCRIBE, SET}
    => \A i \in 1..Len(writes) : \A v \in RequestedIds \cap SnapshotIds :
          ~HasFlag(writes[i].record, v) /\ ~HasDate(writes[i].record, v)

\* C13: in an UNSUBSCRIBE run with a snapshot, a write sets the flag to 'N'
\* and stamps the date for the requested newsletters the snapshot shows
\* subscribed, and carries no flag or date of any other newsletter.
C13_UnsubscribeCareful ==
    (type = UNSUBSCRIBE /\ user_data.status = "ok")
    => \A i \in 1..Len(writes) : \A v \in VendorIds :
          IF v \in RequestedIds \cap SnapshotIds
          THEN Marks(writes[i].record, v, "N")
          ELSE ~HasFlag(writes[i].record, v) /\ ~HasDate(writes[i].record, v)

\* every call of a fetch succeeds
NoFault == [d \in Databases |-> "ok"]

\* the newsletters a fetch now reports the subscriber subscribed to, by
\* vendor id
RemoteSubscribed(email) ==
    LET r == get_user_data("", email, NoFault).result
    IN  IF r.status = "ok"
        THEN {slug_to_vendor_id(r.newsletters[i]) : i \in 1..Len(r.newsletters)}
        ELSE {}

C15_RepeatedSubscribeWritesNoFlags ==
    (again /\ type = SUBSCRIBE)
    => \A i \in 1..Len(writes) : \A v \in VendorIds :
          ~HasFlag(writes[i].record, v) /\ ~HasDate(writes[i].record, v)

\* the fields every write refreshes, and the fields that address the row
Refreshed == {"MODIFIED_DATE_", "EMAIL_PERMISSION_STATUS_"}
Identifying == {"EMAIL_ADDRESS_", "TOKEN", "SubscriberKey", "EmailAddress"}

\* the row the platform stores for the subscriber in a partition
Stored(database, email) ==
    LET rows == IF database = EXACTTARGET_DATA THEN etMaster ELSE etOptin
    IN  IF email \in DOMAIN rows THEN rows[email] ELSE EmptyRecord

\* C16: the field map a run is about to submit holds no format, language,
\* country or newsletter flag whose value equals the value the platform
\* already stores for the subscriber in the partition written to.
C16_IdempotentDiff ==
    pc = "write"
    => \A k \in (DOMAIN record) \ (Refreshed \cup Identifying) :
          (k \in {"EMAIL_FORMAT_", "LANGUAGE_ISO2", "COUNTRY_"}
              \/ \E v \in VendorIds : k = v \o "_FLG")
          => Get(Stored(target_et, data["email"]), k, "") # record[k]

\* C17: a write holds the format field if and only if the request supplies a
\* format.
C17_FormatOnlyIfSupplied ==
    \A i \in 1..Len(writes) :
        ("EMAIL_FORMAT_" \in DOMAIN writes[i].record) <=> ("format" \in DOMAIN data)

\* the confirmation messages of the double opt-in languages; any other
\* message is a welcome
ConfirmationMessages == {CONFIRM_SENDS[l] : l \in DOMAIN CONFIRM_SENDS}
IsWelcome(message) == message \notin ConfirmationMessages

\* C18: a SET or UNSUBSCRIBE run triggers no welcome message, whatever the
\* request says of trigger_welcome.
C18_NoWelcomeOnSetOrUnsubscribe ==
    type \in {SET, UNSUBSCRIBE}
    => \A i \in 1..Len(sends) : ~IsWelcome(sends[i].message)

\* the message the run selects when the request says trigger_welcome = 'Y'
WelcomeWhenAsked == Targeted(record, Put(data, "trigger_welcome", "Y"), type).welcome

\* C19: in a SUBSCRIBE run whose write was applied, a trigger_welcome other
\* than 'Y' sends no welcome, and an absent trigger_welcome selects and sends
\* the message that trigger_welcome = 'Y' selects.
C19_TriggerWelcomeTriState ==
    (type = SUBSCRIBE /\ pc = "done" /\ SomeWriteSucceeded)
    => /\ ("trigger_welcome" \in DOMAIN data /\ data["trigger_welcome"] # "Y")
          => \A i \in 1..Len(sends) : ~IsWelcome(sends[i].message)
       /\ ("trigger_welcome" \notin DOMAIN data /\ WelcomeWhenAsked # "")
          => (Len(sends) = 1 /\ sends[1].message = WelcomeWhenAsked)

\* strip() leaves nothing of the welcome id of the newsletter
NoWelcomeId(v) ==
    \A i \in 1..Len(Catalog) :
        Catalog[i].vendor_id = v => Catalog[i].welcome \in {"", " "}

\* C20: no welcome message is sent in a run whose requested newsletters all
\* have an unset or whitespace-only welcome id.
C20_NoMessageWithoutWelcomeId ==
    (\A v \in RequestedIds : NoWelcomeId(v))
    => \A i \in 1..Len(sends) : ~IsWelcome(sends[i].message)

----------------------------------------------------------------------------
(* Properties of the messages of a run *)

\* the welcome id of a catalog newsletter
WelcomeId(v) == Catalog[CHOOSE i \in 1..Len(Catalog) : Catalog[i].vendor_id = v].welcome

\* the language and the format a welcome goes out in: the request's, else
\* the snapshot's, else 'en' and 'H'
ResolvedLang ==
    IF Get(data, "lang", "") # "" THEN data["lang"]
    ELSE IF user_data.status = "ok" /\ user_data.lang # "" THEN user_data.lang
    ELSE "en"

ResolvedFormat ==
    IF "format" \in DOMAIN data THEN EmailFormat(data)
    ELSE IF user_data.status = "ok" THEN user_data.format
    ELSE "H"

\* <lang>_<welcome_id>, with _T for the text format
MessageId(v) ==
    ResolvedLang \o "_" \o WelcomeId(v) \o (IF ResolvedFormat = "T" THEN "_T" ELSE "")

WelcomeSends == SelectSeq(sends, LAMBDA m : IsWelcome(m.message))

\* the requested catalog newsletters that have a welcome id, by vendor id, in
\* the order the request names them
WelcomedIds ==
    LET newsletters == Get(data, "newsletters", <<"">>)
        ids == [i \in 1..Len(newsletters) |-> newsletter_field(strip(newsletters[i]))]
    IN  SelectSeq(ids, LAMBDA v : v # "" /\ ~NoWelcomeId(v))

\* the run is a SUBSCRIBE outside double opt-in whose request does not
\* suppress the welcome, and it went through
WelcomeDue ==
    /\ type = SUBSCRIBE /\ pc = "done"
    /\ Get(data, "lang", "") \notin DOMAIN CONFIRM_SENDS
    /\ Get(data, "trigger_welcome", "Y") = "Y"

\* C21: a SUBSCRIBE run sends no more welcomes than it requests newsletters
\* that have a welcome and that the snapshot does not show subscribed; for a
\* subscriber with no snapshot it sends the welcome of every requested
\* newsletter that has one, one message each, in the order of the request.
C21_WelcomeOnlyForNewSubscriptions ==
    /\ type = SUBSCRIBE
       => Len(WelcomeSends)
             <= Cardinality({v \in RequestedIds \ SnapshotIds : ~NoWelcomeId(v)})
    /\ (WelcomeDue /\ user_data = None)
       => /\ Len(WelcomeSends) = Len(WelcomedIds)
          /\ \A i \in 1..Len(WelcomedIds) :
                WelcomeSends[i].message = MessageId(WelcomedIds[i])

\* the vendor-precedence pair: the welcome of the specific newsletter
\* supersedes the welcome of the general one
PrecedencePair == [specific |-> "B", general |-> "A"]

\* C22: a new subscriber's SUBSCRIBE to both newsletters of the precedence
\* pair sends exactly one welcome, that of the specific newsletter.
C22_VendorPrecedence ==
    (WelcomeDue /\ user_data = None
        /\ {PrecedencePair.specific, PrecedencePair.general} \subseteq RequestedIds)
    => /\ Len(WelcomeSends) = 1
       /\ WelcomeSends[1].message = MessageId(PrecedencePair.specific)

\* C23: every welcome sent has the id <lang>_<welcome_id> of a catalog
\* newsletter, with _T exactly for the text format, and goes out in the
\* resolved format.
C23_MessageId ==
    \A i \in 1..Len(WelcomeSends) :
        /\ \E v \in VendorIds :
              ~NoWelcomeId(v) /\ WelcomeSends[i].message = MessageId(v)
        /\ WelcomeSends[i].format = ResolvedFormat

\* the run created the local Subscriber: its first field map holds the
\* creation date
CreatedByRun == Len(writes) >= 1 /\ "CREATED_DATE_" \in DOMAIN writes[1].record

\* C24: a write goes to the double opt-in partition exactly when the run is
\* a SUBSCRIBE of a first-time subscriber in a double opt-in language; every
\* other write goes to the master partition.
C24_TargetPartition ==
    \A i \in 1..Len(writes) :
        IF type = SUBSCRIBE /\ CreatedByRun
              /\ Get(data, "lang", "") \in DOMAIN CONFIRM_SENDS
        THEN writes[i].database = EXACTTARGET_OPTIN_STAGE
        ELSE writes[i].database = EXACTTARGET_DATA

\* C25: a SUBSCRIBE run in a double opt-in language triggers at most one
\* message, the confirmation message of that language, and no welcome.
C25_ConfirmationOnly ==
    (type = SUBSCRIBE /\ Get(data, "lang", "") \in DOMAIN CONFIRM_SENDS)
    => /\ Len(sends) <= 1
       /\ \A i \in 1..Len(sends) : sends[i].message = CONFIRM_SENDS[data["lang"]]

C25_Witness ==
    /\ type = SUBSCRIBE /\ pc = "done"
    /\ Get(data, "lang", "") = "de" /\ Get(data, "trigger_welcome", "") = "Y"
    /\ Len(sends) = 1 /\ sends[1].message = "de_confirmation_email"
    /\ sends[1].out = "ok"

\* the terminal outcomes of a run
UU_ALREADY_CONFIRMED == "UU_ALREADY_CONFIRMED"
UU_EXEMPT_NEW == "UU_EXEMPT_NEW"
UU_MUST_CONFIRM == "UU_MUST_CONFIRM"

\* C26: a finished run hands back exactly one terminal outcome: 'already
\* confirmed' when the snapshot is confirmed, 'exempt new' when the platform
\* does not hold the subscriber and no double opt-in is required,
\* 'confirmation pending', or it ends in error.
C26_TerminalOutcome ==
    pc \in {"done", "error"}
    => /\ update_user_returns
             \in {UU_ALREADY_CONFIRMED, UU_EXEMPT_NEW, UU_MUST_CONFIRM, "raise"}
       /\ (pc = "done" /\ user_data.status = "ok" /\ user_data.confirmed)
          => update_user_returns = UU_ALREADY_CONFIRMED
       /\ (pc = "done" /\ user_data = None /\ ~NeedsOptin(record, type))
          => update_user_returns = UU_EXEMPT_NEW

----------------------------------------------------------------------------
(* Properties of the request surface.  `req` is the last request served,   *)
(* `resp` its response, req.queued the tasks it queued.                    *)

\* the request data names a newsletter that does not exist
UnknownSlug ==
    LET newsletters == Get(req.data, "newsletters", <<"">>)
    IN  /\ newsletters # <<"">>
        /\ \E i \in 1..Len(newsletters) :
              \A j \in 1..Len(Catalog) : strip(newsletters[i]) # Catalog[j].slug

InvalidLanguage == "lang" \in DOMAIN req.data /\ ~language_code_is_valid(req.data["lang"])

NobodyNamed == Get(req.data, "email", "") = "" /\ req.sub = NoSubscriber

Invalid == UnknownSlug \/ InvalidLanguage \/ NobodyNamed

ErrorCodes == {BASKET_USAGE_ERROR, BASKET_INVALID_NEWSLETTER, BASKET_INVALID_LANGUAGE}

\* C27: update_user_task answers a request that names an unknown newsletter,
\* carries an invalid language code, or gives neither an email nor an
\* authenticated subscriber with status 400 and a machine-readable code;
\* it then queues no task, asks the platform nothing and leaves the local
\* Subscriber table as it found it.
C27_InvalidRequestRejected ==
    (req.tasked /\ Invalid)
    => /\ resp.status_code = 400
       /\ resp.status = "error"
       /\ resp.code \in ErrorCodes
       /\ resp.code = BASKET_INVALID_NEWSLETTER => UnknownSlug
       /\ resp.code = BASKET_INVALID_LANGUAGE => InvalidLanguage
       /\ resp.code = BASKET_USAGE_ERROR => NobodyNamed
       /\ req.queued = <<>>
       /\ req.calls = req.guard_calls
       /\ subscribers = req.entered

\* an invalid language code sent for an email with no local Subscriber
C27_Witness ==
    /\ req.view = "subscribe"
    /\ req.tasked
    /\ InvalidLanguage
    /\ req.email # ""
    /\ ~req.local
    /\ resp.code = BASKET_INVALID_LANGUAGE

\* C28: a request that passes the validation of update_user_task queues
\* exactly one update_user task, with the request data, the email and token
\* of a Subscriber of the local table, the created flag, the type and optin,
\* and is answered 'ok' with the same token and created flag.
C28_ValidRequestQueued ==
    (req.tasked /\ ~Invalid)
    => /\ Len(req.queued) = 1
       /\ LET t == req.queued[1]
          IN  /\ t.task = "update_user"
              /\ t.data = req.data
              /\ t.email \in DOMAIN subscribers
              /\ subscribers[t.email] = t.token
              /\ req.sub = NoSubscriber => t.email = req.data["email"]
              /\ req.sub # NoSubscriber => (t.email = req.sub.email /\ ~t.created)
              /\ t.created <=> (req.sub = NoSubscriber /\ ~req.local)
              /\ t.type = req.type
              /\ t.optin = req.optin
              /\ resp = Response(200, "ok", "", t.token, t.created)
       /\ queue[Len(queue)] = req.queued[1]

\* a second valid request, for a new subscriber
C28_Witness ==
    /\ served = 2
    /\ Len(queue) = 2
    /\ req.tasked
    /\ ~Invalid
    /\ resp.status = "ok"
    /\ resp.created

\* the Subscriber rows of a table
Tokens(subs) == {subs[e] : e \in DOMAIN subs}

PlatformTokens ==
    {r["TOKEN"] : r \in Rows(EXACTTARGET_DATA) \cup Rows(EXACTTARGET_OPTIN_STAGE)}

\* a request that reached lookup_subscriber(email=e)
LookedUpByEmail == req.view = "subscribe" /\ req.tasked /\ ~Invalid

\* C29: lookup_subscriber(email=e) returns the local Subscriber of e when
\* there is one, with created=False and without asking the platform; when e
\* is known neither locally nor to the platform it creates exactly one local
\* Subscriber, with a fresh token, and returns created=True.
C29_LookupByEmail ==
    LookedUpByEmail
    => /\ req.local
          => /\ req.queued[1].email = req.email
             /\ req.queued[1].token = req.before[req.email]
             /\ ~req.queued[1].created
             /\ req.calls = 0
             /\ subscribers = req.before
       /\ (~req.local /\ ~req.remote)
          => /\ DOMAIN subscribers = (DOMAIN req.before) \cup {req.email}
             /\ req.email \notin DOMAIN req.before
             /\ \A e \in DOMAIN req.before : subscribers[e] = req.before[e]
             /\ subscribers[req.email] \notin Tokens(req.before) \cup PlatformTokens
             /\ req.queued[1].token = subscribers[req.email]
             /\ req.queued[1].created

\* a Subscriber is created while the table already holds another one
C29_Witness ==
    /\ LookedUpByEmail
    /\ ~req.local
    /\ ~req.remote
    /\ req.before # EmptyRecord
    /\ resp.created

\* C30: a token known neither locally nor to the platform finds no
\* subscriber and creates no local record; the guarded handler is answered
\* 403, its body does not run and no task is queued.
C30_UnknownTokenForbidden ==
    (req.view \in {"unsubscribe", "confirm"} /\ ~req.local /\ ~req.remote)
    => /\ req.sub = NoSubscriber
       /\ subscribers = req.before
       /\ resp.status_code = 403
       /\ resp.code = BASKET_USAGE_ERROR
       /\ ~req.ran
       /\ ~req.tasked
       /\ req.queued = <<>>

\* an unknown token presented while the table holds a Subscriber
C30_Witness ==
    /\ req.view = "unsubscribe"
    /\ req.token = "zz"
    /\ ~req.local
    /\ ~req.remote
    /\ req.before # EmptyRecord
    /\ resp.status_code = 403

----------------------------------------------------------------------------
(* Properties of the local Subscriber table across lookups and fetches *)

\* C31: the token of a local Subscriber never changes once it has been
\* assigned, whatever lookup or fetch with sync_data is made.
C31_TokenImmutable ==
    [][\A e \in DOMAIN subscribers :
          e \in DOMAIN subscribers' /\ subscribers'[e] = subscribers[e]]_vars

\* what get_user_data reports for the subscriber with email e when it is
\* asked by email and when it is asked by the token of that subscriber's row
ByEmail(e) == get_user_data("", e, NoFault).result

ByToken(e) == get_user_data(RemoteToken[e], "", NoFault).result

\* C35: for one subscriber get_user_data(email=e) and get_user_data(token=t)
\* report the same master, pending and confirmed values; a pending
\* subscriber whose token confirm_user recorded is confirmed=True by email
\* as well as by token.
C35_EmailAndTokenAgree ==
    \A e \in Emails :
        /\ ByEmail(e).status = ByToken(e).status
        /\ ByEmail(e).status = "ok"
           => /\ ByEmail(e).master = ByToken(e).master
              /\ ByEmail(e).pending = ByToken(e).pending
              /\ ByEmail(e).confirmed = ByToken(e).confirmed

\* the last request asked the platform and the query failed
LookupFetchFailed == req.calls > 0 /\ ret.result.status = "error"

\* C36: a transport or auth failure of the fetch inside lookup_subscriber is
\* not taken for "subscriber not found": no local Subscriber is created,
\* created=True is not reported and no task is queued.
C36_FetchFailureNotUnknown ==
    LookupFetchFailed
    => /\ subscribers = req.before
       /\ ~resp.created
       /\ req.queued = <<>>

----------------------------------------------------------------------------
(* Properties of the newsletter fields of a write *)

\* the fields of a record that are not newsletter fields
BaseFields ==
    {"EMAIL_ADDRESS_", "EMAIL_PERMISSION_STATUS_", "COUNTRY_", "LANGUAGE_ISO2",
     "SOURCE_URL", "EMAIL_FORMAT_", "TOKEN", "CREATED_DATE_", "MODIFIED_DATE_",
     "SubscriberKey", "EmailAddress"}

\* the flag and date fields of the catalog newsletters the request names
NamedFields == UNION {{v \o "_FLG", v \o "_DATE"} : v \in RequestedIds}

\* the flag of newsletter v in every row of the master and pending partitions
RemoteFlags(v) ==
    [e \in Emails |->
        <<IF e \in DOMAIN etMaster THEN Column(etMaster[e], v \o "_FLG") ELSE "",
          IF e \in DOMAIN etOptin THEN Column(etOptin[e], v \o "_FLG") ELSE "">>]

\* C38: the writes of a SUBSCRIBE or UNSUBSCRIBE run carry flag and date
\* fields only for the catalog newsletters the request names; the remote
\* flag of every other newsletter stays as it is, and a named slug that is
\* not in the catalog adds no field.
C38_OnlyNamedNewsletters ==
    [][type' \in {SUBSCRIBE, UNSUBSCRIBE}
       => /\ \A i \in 1..Len(writes') :
                DOMAIN writes'[i].record \subseteq BaseFields \cup NamedFields'
          /\ \A v \in VendorIds \ RequestedIds' : RemoteFlags(v)' = RemoteFlags(v)]_vars

\* an UNSUBSCRIBE naming news-a and an unknown slug is applied to a row
\* subscribed to news-b
C38_Witness ==
    /\ type = UNSUBSCRIBE
    /\ data["newsletters"] = <<"news-a", "nope">>
    /\ pc = "done"
    /\ SomeWriteSucceeded
    /\ data["email"] \in DOMAIN etMaster
    /\ Column(etMaster[data["email"]], "A_FLG") = "N"
    /\ Column(etMaster[data["email"]], "B_FLG") = "Y"

\* C39: in every write of update_user, whatever the change type and the
\* newsletter list, a newsletter's flag field is present exactly when its
\* date field is, and the flag is 'Y' or 'N'.
C39_FlagWithDate ==
    \A i \in 1..Len(writes) : \A v \in VendorIds :
        /\ HasFlag(writes[i].record, v) <=> HasDate(writes[i].record, v)
        /\ HasFlag(writes[i].record, v) => writes[i].record[v \o "_FLG"] \in {"Y", "N"}

\* a SET write that subscribes one newsletter and unsubscribes the other
C39_Witness ==
    /\ type = SET
    /\ writes # <<>>
    /\ Marks(writes[1].record, "A", "Y")
    /\ Marks(writes[1].record, "B", "N")

----------------------------------------------------------------------------
(* Properties of lookup_user.  `req` is the last request, `resp` its       *)
(* response, `ret` the call of get_user_data it made.                      *)

OverSSL == req.secure
OneKeyGiven == (req.email = "") # (req.token = "")
KeyOk == req.email # "" => req.valid_key

\* the statuses the failed checks of the request call for
RefusalStatuses ==
    (IF ~OverSSL THEN {401} ELSE {})
    \cup (IF ~OneKeyGiven THEN {400} ELSE {})
    \cup (IF ~KeyOk THEN {401} ELSE {})

\* C34: lookup_user asks the platform only for a request over SSL that gives
\* exactly one of email and token and, with an email, a valid API key;
\* otherwise it answers 401, 400 or 401 without a query.  When the checks
\* pass it answers 404 for an unknown subscriber, 400 when the fetch
\* reported an error and 200 with the snapshot otherwise.
C34_LookupUser ==
    req.view = "lookup_user"
    => IF OverSSL /\ OneKeyGiven /\ KeyOk
       THEN /\ req.calls = 1
            /\ ret.token = req.token /\ ret.email = req.email
            /\ IF FetchFailed
               THEN resp.status_code = 400 /\ resp.body.status = "error"
               ELSE IF ~SubjectInMaster /\ ~SubjectInOptin
               THEN resp.status_code = 404 /\ resp.body.status = "error"
               ELSE /\ resp.status_code = 200
                    /\ resp.body = ret.result
                    /\ resp.body.status = "ok"
       ELSE /\ req.calls = 0
            /\ resp.status_code \in RefusalStatuses
            /\ resp.body.status = "error"

\* a lookup by email with a valid key finds a pending subscriber
C34_Witness ==
    /\ req.view = "lookup_user"
    /\ OverSSL
    /\ req.email # ""
    /\ req.token = ""
    /\ req.valid_key
    /\ ~SubjectInMaster
    /\ SubjectInOptin
    /\ resp.status_code = 200

----------------------------------------------------------------------------
(* Properties of delete_user.  `req` is the last delete_user request,      *)
(* req.sub the Subscriber of its token, req.fault the failure of its       *)
(* remote session.                                                         *)

\* the step serves a delete_user request of a known token
DeleteServed == req' # req /\ req'.view = "delete_user" /\ req'.sub # NoSubscriber

\* C40: delete_user removes the local Subscriber only after the remote
\* deletion has succeeded; when the platform reports an error or an auth
\* failure the response is 500 and the local Subscriber stays as it was.
C40_DeleteAfterRemote ==
    [][DeleteServed
       => /\ req'.fault.at # ""
             => (resp'.status_code = 500 /\ subscribers' = subscribers)
          /\ subscribers' # subscribers
             => /\ req'.sub.email \notin DOMAIN subscribers'
                /\ req'.sub.email \notin (DOMAIN etMaster') \cup (DOMAIN etOptin')
                /\ req'.fault.at = ""
                /\ resp'.status_code = 200]_vars

\* the platform refuses the deletion of a subscriber it holds
C40_Witness ==
    /\ req.view = "delete_user"
    /\ req.sub # NoSubscriber
    /\ req.fault.at = "delete_list_members"
    /\ req.sub.email \in DOMAIN etMaster
    /\ req.sub.email \in DOMAIN subscribers
    /\ resp.status_code = 500

----------------------------------------------------------------------------
(* Properties of concurrent update_user tasks.  Each worker runs one task; *)
(* workers[w].writes are its add_record calls with their outcomes.         *)

\* the subscriber the task of w is for
EmailOf(w) == workers[w].data["email"]

Started(w) == workers[w].pc # "idle"
Finished(w) == workers[w].pc \in {"done", "error"}

\* the add_record calls of w the platform accepted
OkWrites(w) == {i \in 1..Len(workers[w].writes) : IsOk(workers[w].writes[i].out)}

\* the row of e in a partition, empty when there is none
RowOf(rows, e) == IF e \in DOMAIN rows THEN rows[e] ELSE EmptyRecord

\* the row of e after the accepted write of w to that partition, when w made
\* one, was applied to `row`
AfterTask(row, w, database) ==
    LET oks == {i \in OkWrites(w) : workers[w].writes[i].database = database}
    IN  IF oks = {} THEN row
        ELSE Merge(row, workers[w].writes[CHOOSE i \in oks : TRUE].record)

\* the local and remote state of the subscriber of w is what the task of w
\* alone makes of the starting deployment
AsAlone(w) ==
    LET e == EmailOf(w)
    IN  /\ workers[w].pc \notin {"idle", "create"}
           => /\ workers[w].sub.email = e
              /\ e \in DOMAIN subscribers
              /\ subscribers[e] = workers[w].sub.token
              /\ e \in DOMAIN StartSubscribers => subscribers[e] = StartSubscribers[e]
        /\ workers[w].pc \in {"idle", "create"}
           => /\ e \in DOMAIN subscribers <=> e \in DOMAIN StartSubscribers
              /\ e \in DOMAIN subscribers => subscribers[e] = StartSubscribers[e]
        /\ RowOf(etMaster, e) = AfterTask(RowOf(StartMaster, e), w, EXACTTARGET_DATA)
        /\ RowOf(etOptin, e) = AfterTask(RowOf(StartOptin, e), w, EXACTTARGET_OPTIN_STAGE)

\* the tasks under way are for different subscribers
DifferentSubscribers ==
    \A w, v \in Workers : (w # v /\ Started(w) /\ Started(v)) => EmailOf(w) # EmailOf(v)

\* C32: tasks for two different subscribers are independent: at every step
\* of every interleaving, the local record and the remote rows of each
\* task's subscriber are what that task alone makes of them, so the final
\* state is that of running the two one after the other.
C32_IndependentSubscribers ==
    DifferentSubscribers => \A w \in Workers : Started(w) => AsAlone(w)

\* both tasks ended after an accepted write, one for the known subscriber
\* and one for a subscriber it created
C32_Witness ==
    /\ \A w \in Workers : Finished(w) /\ OkWrites(w) # {}
    /\ EmailOf("w1") = "e1@x"
    /\ EmailOf("w2") = "e2@x"
    /\ workers["w2"].created
    /\ workers["w1"].writes[1].database = workers["w2"].writes[1].database

\* the newsletter flags of subscriber e in the two partitions
FlagsOf(master, optin, e) ==
    [x \in {Catalog[i].vendor_id \o "_FLG" : i \in 1..Len(Catalog)} |->
        <<Column(master, x), Column(optin, x)>>]

\* the flags of e after the task of `first` and then the task of `second`
\* ran, each to its end, from the starting deployment
SerialFlags(first, second, e) ==
    FlagsOf(AfterTask(AfterTask(RowOf(StartMaster, e), first, EXACTTARGET_DATA),
                      second, EXACTTARGET_DATA),
            AfterTask(AfterTask(RowOf(StartOptin, e), first, EXACTTARGET_OPTIN_STAGE),
                      second, EXACTTARGET_OPTIN_STAGE),
            e)

\* both tasks have ended and were for the same subscriber
SameSubscriberDone ==
    /\ \A w \in Workers : Finished(w)
    /\ EmailOf("w1") = EmailOf("w2")

WrittenTokens(e) ==
    UNION {{workers[w].writes[i].record["TOKEN"] : i \in 1..Len(workers[w].writes)} :
              w \in {v \in Workers : EmailOf(v) = e}}

\* both tasks have ended and were for the same subscriber, unknown before
SameUnknownDone ==
    /\ SameSubscriberDone
    /\ EmailOf("w1") \notin DOMAIN StartSubscribers

\* C37: when two tasks for the same, previously unknown email ran
\* concurrently, there is exactly one local Subscriber for that email, both
\* tasks obtained its one token, every remote write for the email carried
\* that non-empty token, and at most one task saw created = True.
C37_OneSubscriberOneToken ==
    SameUnknownDone
    => /\ EmailOf("w1") \in DOMAIN subscribers
       /\ subscribers[EmailOf("w1")] # ""
       /\ \A w \in Workers : workers[w].sub.token = subscribers[EmailOf("w1")]
       /\ WrittenTokens(EmailOf("w1")) \subseteq {subscribers[EmailOf("w1")]}
       /\ ~(workers["w1"].created /\ workers["w2"].created)

====
